---- MODULE Spec2Model ----
(***************************************************************************)
(* Device command subsystem of the growatt client (lib/growatt.js):        *)
(* getInverterSetting / setInverterSetting -> comInverter, the command     *)
(* queue it awaits, the request/acknowledgment loop with its retry on an   *)
(* empty completion message, and the session flag it consults.             *)
(*                                                                         *)
(* One client instance.  JavaScript runs to completion: a handler is one   *)
(* action; promise reactions and await continuations are jobs of a FIFO    *)
(* microtask queue (micro); transport responses are macrotasks and are     *)
(* taken only when no microtask is pending.                                *)
(***************************************************************************)
EXTENDS Integers, Sequences, FiniteSets, TLC

\* ------------------------------------------------------------------ bounds
MaxCalls == 3           \* calls of getInverterSetting/setInverterSetting
MaxRetry == 1           \* empty-msg acknowledgments one call may receive
MaxLogins == 1          \* login requests in flight at once

Calls == 1..MaxCalls

Undefined == "undefined"

\* ------------------------------------------------- registry (growatttype.js)
\* One device type with two functions; a descriptor carries the read
\* parameter id, the write type, the declared parameters in key order and a
\* result parser (period declares two parameters and no parser).
GROWATTTYPE ==
  [tlx |-> [readParam |-> "readAllMinParam",
            writeParam |-> "tlxSet",
            comInverter |->
              [time |-> [paramId |-> "pf_sys_year",
                         type |-> "pf_sys_year",
                         param |-> << [type |-> "INUM_0_23", key |-> "param1", name |-> "Hour"] >>,
                         parseRet |-> "parseTime"],
               period |-> [paramId |-> "pf_period",
                           type |-> "pf_period",
                           param |-> << [type |-> "INUM_0_23", key |-> "param1", name |-> "Start hour"],
                                        [type |-> "INUM_0_23", key |-> "param2", name |-> "End hour"] >>,
                           parseRet |-> Undefined]]]]

\* Object.prototype, reached by the key "__proto__" on any plain object: an
\* object none of whose descriptor fields is defined.
ObjectPrototype ==
  [paramId |-> Undefined, type |-> Undefined, param |-> << >>, parseRet |-> Undefined]

\* typeof GROWATTTYPE[type]
TypeofGt(type) ==
  IF type \in DOMAIN GROWATTTYPE \/ type = "__proto__" THEN "object" ELSE Undefined

\* gt[paramorgi.action]
GtAction(type, action) ==
  IF type \in DOMAIN GROWATTTYPE THEN GROWATTTYPE[type][action] ELSE Undefined

\* typeof gt[paramorgi.base][paramorgi.func], base = 'comInverter'
TypeofFunc(type, func) ==
  IF type \notin DOMAIN GROWATTTYPE THEN Undefined
  ELSE IF func \in DOMAIN GROWATTTYPE[type].comInverter \/ func = "__proto__" THEN "object"
  ELSE Undefined

\* The parameter descriptors ({name, type} objects) are objects of the
\* registry; what has been assigned to a field of one of them since
\* startup is kept in written, as <<object, field, value>> with the object
\* named by <<device type, function, position>>.
VARIABLE written

ParamField(ref, f, v0) ==
  IF \E w \in written : w[1] = ref /\ w[2] = f
  THEN (CHOOSE w \in written : w[1] = ref /\ w[2] = f)[3]
  ELSE v0

\* gt[paramorgi.base][paramorgi.func].param as it is now
Params(type, func) ==
  LET p == GROWATTTYPE[type].comInverter[func].param
  IN IF written = {} THEN p
     ELSE [i \in 1..Len(p) |->
             [p[i] EXCEPT !.type = ParamField(<<type, func, i>>, "type", @),
                          !.name = ParamField(<<type, func, i>>, "name", @)]]

\* b = gt[paramorgi.base][paramorgi.func]
Descriptor(type, func) ==
  IF func \in DOMAIN GROWATTTYPE[type].comInverter
  THEN IF written = {} THEN GROWATTTYPE[type].comInverter[func]
       ELSE [GROWATTTYPE[type].comInverter[func] EXCEPT !.param = Params(type, func)]
  ELSE ObjectPrototype

\* ------------------------------------------------------- codec (parsein.js)
\* PARSEIN[t](v): the encoded value and whether v is valid for t.
PARSEIN(t, v) ==
  IF t = "INUM_0_23" THEN [value |-> v, ok |-> (v >= 0 /\ v <= 23)]
  ELSE [value |-> v, ok |-> TRUE]

\* The values argument of setInverterSetting: absent, or an object holding
\* some of the named values.
NoVal == [kind |-> Undefined, fields |-> << >>]
ObjVal(f) == [kind |-> "object", fields |-> f]

\* typeof paramorgi.val[name] !== 'undefined', and paramorgi.val[name];
\* fields is a sequence of <<name, value>> pairs.
HasField(val, key) == \E i \in 1..Len(val.fields) : val.fields[i][1] = key
GetField(val, key) ==
  val.fields[CHOOSE i \in 1..Len(val.fields) : val.fields[i][1] = key][2]

\* ---------------------------------------------------------------- requests
\* paramorgi as built by getInverterSetting (line 827) and setInverterSetting
\* (line 833); url.paramId exists for reads only, url.type for writes only.
ReadParamorgi(func, serialNum) ==
  [action |-> "readParam", func |-> func, val |-> NoVal,
   url |-> [paramId |-> "", type |-> Undefined, action |-> "", fields |-> << >>, serialNum |-> serialNum]]

WriteParamorgi(func, serialNum, val) ==
  [action |-> "writeParam", func |-> func, val |-> val,
   url |-> [paramId |-> Undefined, type |-> "", action |-> "", fields |-> << >>, serialNum |-> serialNum]]

\* An Error: the template of its message (kind) and what the template is
\* filled with, the first value (name) and the values after it (on).
NoError == [name |-> "", kind |-> "none", on |-> << >>]
ErrOnBare(k, n, w) == [name |-> n, kind |-> k, on |-> << >>]
ErrOn(k, n, w) == [name |-> n, kind |-> k, on |-> w]
Err(k, n) == ErrOn(k, n, << >>)

\* Object.keys(p).forEach(...) of lines 863-875 from key i on, for function
\* func of device type type: the encoded fields collected so far, or the
\* first error thrown.
RECURSIVE CheckParamsNoThrow(_, _, _, _, _, _)
CheckParamsNoThrow(p, val, func, type, i, acc) ==
  IF i > Len(p) THEN [fields |-> acc, err |-> NoError]
  ELSE IF HasField(val, p[i].key)
       THEN CheckParamsNoThrow(p, val, func, type, i + 1,
              Append(acc, <<p[i].key, PARSEIN(p[i].type, GetField(val, p[i].key)).value>>))
       ELSE [fields |-> acc, err |-> ErrOn("missing", p[i].name, <<func, type>>)]
RECURSIVE CheckParams(_, _, _, _, _, _)
CheckParams(p, val, func, type, i, acc) ==
  IF i > Len(p) THEN [fields |-> acc, err |-> NoError]
  ELSE IF HasField(val, p[i].key)
       THEN LET r == PARSEIN(p[i].type, GetField(val, p[i].key)) IN
            IF r.ok
            THEN CheckParams(p, val, func, type, i + 1, Append(acc, <<p[i].key, r.value>>))
            ELSE [fields |-> acc,
                  err |-> ErrOn("incorrect", p[i].name, <<p[i].type, func, type>>)]
       ELSE [fields |-> acc, err |-> ErrOn("missing", p[i].name, <<func, type>>)]

\* The try block of comInverter, lines 845-884: the error thrown (none when
\* OK stays true), the request fields and the result parser.
ValidateAppend(type, po) ==
  IF ~(TypeofGt(type) = "object" /\ GtAction(type, po.action) # Undefined)
  THEN [param |-> po.url, err |-> ErrOn("unknownAction", po.action, <<type>>), checkRet |-> Undefined]
  ELSE IF TypeofFunc(type, po.func) # "object"
  THEN [param |-> po.url, err |-> ErrOn("unknownFunction", po.func, <<type>>), checkRet |-> Undefined]
  ELSE
    LET b == Descriptor(type, po.func)
        p0 == [po.url EXCEPT !.action = GtAction(type, po.action)]
        rd == p0.paramId # Undefined /\ b.paramId # Undefined
        p1 == IF rd THEN [p0 EXCEPT !.paramId = b.paramId] ELSE p0
        cr == IF rd THEN b.parseRet ELSE Undefined
        wr == p1.type # Undefined /\ b.type # Undefined
        p2 == IF wr THEN [p1 EXCEPT !.type = b.type] ELSE p1
        ck == IF wr /\ po.val.kind = "object"
              THEN CheckParams(b.param, po.val, po.func, type, 1, << >>)
              ELSE [fields |-> << >>, err |-> NoError]
    IN [param |-> [p2 EXCEPT !.fields = @ \o ck.fields], err |-> ck.err, checkRet |-> cr]
Validate(type, po) ==
  IF ~(TypeofGt(type) = "object" /\ GtAction(type, po.action) # Undefined)
  THEN [param |-> po.url, err |-> ErrOn("unknownAction", po.action, <<type>>), checkRet |-> Undefined]
  ELSE IF TypeofFunc(type, po.func) # "object"
  THEN [param |-> po.url, err |-> ErrOn("unknownFunction", po.func, <<type>>), checkRet |-> Undefined]
  ELSE
    LET b == Descriptor(type, po.func)
        p0 == [po.url EXCEPT !.action = GtAction(type, po.action)]
        rd == p0.paramId # Undefined /\ b.paramId # Undefined
        p1 == IF rd THEN [p0 EXCEPT !.paramId = b.paramId] ELSE p0
        cr == IF rd THEN b.parseRet ELSE Undefined
        wr == p1.type # Undefined /\ b.type # Undefined
        p2 == IF wr THEN [p1 EXCEPT !.type = b.type] ELSE p1
        ck == IF wr /\ po.val.kind = "object"
              THEN CheckParams(b.param, po.val, po.func, type, 1, << >>)
              ELSE [fields |-> << >>, err |-> NoError]
    IN [param |-> [p2 EXCEPT !.fields = ck.fields], err |-> ck.err, checkRet |-> cr]

\* if (!OK) return;  (lines 885-887): whether comInverter goes on to addTask.
ProceedsAlways(err) == TRUE
Proceeds(err) == err.kind = "none"

\* --------------------------------------------------------- queue (queue.js)
Job(k, c) == [kind |-> k, call |-> c]

\* addTask: append to the waiting list; when nothing is executing the entry
\* is granted the slot at once (its awaiting continuation is scheduled).
addTaskLifo(s, c) ==
  [queue |-> IF s.queue = << >> THEN <<c>> ELSE <<Head(s.queue), c>> \o Tail(s.queue),
   micro |-> IF s.queue = << >> THEN Append(s.micro, Job("run", c)) ELSE s.micro]
addTask(s, c) ==
  [queue |-> Append(s.queue, c),
   micro |-> IF s.queue = << >> THEN Append(s.micro, Job("run", c)) ELSE s.micro]

\* taskFinished: remove the head entry and grant the new head the slot.
taskFinished(s) ==
  IF s.queue = << >> THEN s
  ELSE LET t == Tail(s.queue) IN
       [queue |-> t,
        micro |-> IF t # << >> THEN Append(s.micro, Job("run", Head(t))) ELSE s.micro]

\* --------------------------------------------------------------- responses
\* res.data of a /tcpSet.do response: absent, or an object whose success and
\* msg fields may be missing.
NoData == [data |-> FALSE, success |-> Undefined, msg |-> Undefined, parsed |-> FALSE]
Payload(success, msg) == [data |-> TRUE, success |-> success, msg |-> msg, parsed |-> FALSE]
Payloads ==
  {NoData, Payload(Undefined, "error"), Payload("true", ""),
   Payload("true", "inv_set_success"), Payload("false", "inv_set_fail")}

\* The branch the .then handler of lines 897-926 takes on res.data.
AckBranchLoose(d, checkRet) ==
  IF d.data
  THEN IF d.msg = "" THEN "retry"
       ELSE IF checkRet # Undefined THEN "parse" ELSE "raw"
  ELSE "rejectUnexpected"
AckBranchRaw(d, checkRet) ==
  IF d.data /\ d.success # Undefined
  THEN IF d.msg # Undefined /\ d.msg = "" THEN "retry" ELSE "raw"
  ELSE IF d.data THEN "rejectPayload"
  ELSE "rejectUnexpected"
AckBranchNoRetry(d, checkRet) ==
  IF d.data /\ d.success # Undefined
  THEN IF checkRet # Undefined THEN "parse" ELSE "raw"
  ELSE IF d.data THEN "rejectPayload"
  ELSE "rejectUnexpected"
AckBranch(d, checkRet) ==
  IF d.data /\ d.success # Undefined
  THEN IF d.msg # Undefined /\ d.msg = "" THEN "retry"
       ELSE IF checkRet # Undefined THEN "parse" ELSE "raw"
  ELSE IF d.data THEN "rejectPayload"
  ELSE "rejectUnexpected"

\* checkRet(res.data, qresolve): the parser hands its parsed value to
\* qresolve, or throws on a payload it cannot parse and hands over nothing.
parseRet(d) == [d EXCEPT !.parsed = TRUE]
parseThrows(d) == d.msg = "malformed"

\* ------------------------------------------------------------------- state
VARIABLES
  connected,      \* this.connected
  cookie,         \* this.cookie
  loginPending,   \* login requests in flight
  queue,          \* this.queue: the waiting list, head = slot holder
  micro,          \* pending promise jobs, in FIFO order
  pc,             \* per call: idle, queued, inflight, unwinding, done
  args,           \* per call: the arguments of the pending call
  depth,          \* per call: nesting level of its innermost comInverter
  unwind,         \* per call: enclosing comInverter levels still to settle
  outcome,        \* per call: what its innermost settled promise carries
  settles,        \* per call: calls of the caller's resolve/reject
  sent,           \* per call: requests posted to /tcpSet.do
  finished,       \* per call: taskFinished invocations it caused
  everConn,       \* per call: connected held at some time since the call
  asked,          \* calls that called addTask and have not run yet, in call order
  delivered,      \* the call of a caller's resolve/reject made by the last step
  fetchPending,   \* per telemetry method: requests in flight
  logoutPending,  \* logout requests in flight
  peer,           \* a second client instance: its session, queue and command
  guestPending,   \* demoLogin / sharePlantLogin requests in flight
  loggedOut,      \* a logout has succeeded and no login has succeeded since
  view,           \* registry objects the map handed to the application shares
  pager           \* getAllPlantData: where its device-list requests stand

session == <<connected, cookie, loginPending>>
percall == <<pc, args, depth, unwind, outcome, settles, sent, finished, everConn>>
aside == <<guestPending, view, written, pager>>
extra == <<fetchPending, logoutPending, peer, aside, loggedOut>>
vars == <<connected, cookie, loginPending, queue, micro, pc, args, depth,
          unwind, outcome, settles, sent, finished, everConn, asked,
          delivered, fetchPending, logoutPending, peer, guestPending,
          loggedOut, view, written, pager>>

NoArgs == [type |-> "", po |-> ReadParamorgi("", "")]
Pending == [value |-> NoData, err |-> NoError, state |-> "pending"]
ResolvedParsed(v) == [value |-> [v EXCEPT !.parsed = TRUE], err |-> NoError, state |-> "resolved"]
Resolved(v) == [value |-> v, err |-> NoError, state |-> "resolved"]
Rejected(e, v) == [value |-> v, err |-> e, state |-> "rejected"]

\* What a caller's resolve/reject was called with: the call, its arguments,
\* the result, and the retries and requests the call went through.
Delivery(c, a, r, n, k) == [call |-> c, args |-> a, sent |-> k, result |-> r, retries |-> n]
NoDelivery == Delivery(0, NoArgs, Pending, 0, 0)

\* The telemetry methods modelled: getPlantList (lines 265-292),
\* getDevicesByPlantList (lines 300-330) and the request getDeviceChart
\* ends in (lines 625-663).
FetchMethods == {"getPlantList", "getDevicesByPlantList", "getDeviceDayChart"}

\* What the constructor gives an instance (lines 71-73), and the one
\* command the second instance issues.
NewClient ==
  [queue |-> << >>, connected |-> FALSE, cookie |-> "", loginPending |-> 0, pc |-> "idle"]

\* getAllPlantData's walk through a plant's device list: where it stands
\* (idle, first, more, done, failed), devices.obj.pages of the first
\* response (0 before it, and when it reports none), the page of the
\* request in flight, and the pages requested so far, in order.
Pager(st, n, cp, req) == [stage |-> st, pages |-> n, currPage |-> cp, requested |-> req]
NoPager == Pager("idle", 0, 0, << >>)

\* constructor, lines 63-83
Init ==
  /\ connected = FALSE
  /\ cookie = ""
  /\ loginPending = 0
  /\ queue = << >>
  /\ micro = << >>
  /\ pc = [c \in Calls |-> "idle"]
  /\ args = [c \in Calls |-> NoArgs]
  /\ depth = [c \in Calls |-> 0]
  /\ unwind = [c \in Calls |-> 0]
  /\ outcome = [c \in Calls |-> Pending]
  /\ settles = [c \in Calls |-> 0]
  /\ sent = [c \in Calls |-> 0]
  /\ finished = [c \in Calls |-> 0]
  /\ everConn = [c \in Calls |-> FALSE]
  /\ asked = << >>
  /\ delivered = NoDelivery
  /\ fetchPending = [m \in FetchMethods |-> 0]
  /\ logoutPending = 0
  /\ peer = NewClient
  /\ guestPending = 0
  /\ loggedOut = FALSE
  /\ view = {}
  /\ written = {}
  /\ pager = NoPager

\* isConnected(), lines 93-95
isConnectedStub == TRUE
isConnected == connected

\* ----------------------------------------------------------------- actions
Q == [queue |-> queue, micro |-> micro]

\* Bounded inputs of the command calls.
TypeInputs == {"tlx", "nosuchtype"}
FuncInputs == {"time", "__proto__", "nosuchfunc"}
WriteTypeInputs == {"tlx"}
WriteFuncInputs == {"time"}
SerialInputs == {"SN1"}
ValInputs == {ObjVal(<< <<"param1", 5>> >>)}

\* The caller's resolve / reject is called with r: the call is over and
\* what comInverter held for it is dropped.
Deliver(c, r) ==
  /\ delivered' = Delivery(c, args[c], r, depth[c], sent[c])
  /\ outcome' = [outcome EXCEPT ![c] = Pending]
  /\ settles' = [settles EXCEPT ![c] = @ + 1]
  /\ pc' = [pc EXCEPT ![c] = "done"]
  /\ args' = [args EXCEPT ![c] = NoArgs]
  /\ depth' = [depth EXCEPT ![c] = 0]
  /\ unwind' = [unwind EXCEPT ![c] = 0]
  /\ sent' = [sent EXCEPT ![c] = 0]
  /\ everConn' = [everConn EXCEPT ![c] = FALSE]

\* comInverter up to its await, lines 837-888, for a call from the
\* application: validate, reject on a validation error, otherwise addTask.
\* The validation writes the request fields into paramorgi.url, which the
\* retry of line 903 validates again.
comInverterPosts(c, type, po) ==
  LET v == Validate(type, po)
      s == IF Proceeds(v.err) THEN addTask(Q, c) ELSE Q
  IN /\ pc[c] = "idle"
     /\ \A b \in Calls : b < c => pc[b] # "idle"
     /\ delivered' = IF v.err.kind # "none"
                     THEN Delivery(c, [type |-> type, po |-> po], Rejected(v.err, NoData), 0, 0)
                     ELSE NoDelivery
     /\ settles' = [settles EXCEPT ![c] = IF v.err.kind # "none" THEN @ + 1 ELSE @]
     /\ pc' = [pc EXCEPT ![c] = IF Proceeds(v.err) THEN "queued" ELSE "done"]
     /\ args' = [args EXCEPT ![c] =
                   IF Proceeds(v.err)
                   THEN [type |-> type, po |-> [po EXCEPT !.url = v.param]]
                   ELSE @]
     /\ everConn' = [everConn EXCEPT ![c] = Proceeds(v.err) /\ connected]
     /\ queue' = s.queue
     /\ micro' = s.micro
     /\ asked' = IF Proceeds(v.err) THEN Append(asked, c) ELSE asked
     /\ sent' = [sent EXCEPT ![c] = IF Proceeds(v.err) THEN @ + 1 ELSE @]
     /\ UNCHANGED <<session, depth, unwind, outcome, finished, extra>>
comInverter(c, type, po) ==
  LET v == Validate(type, po)
      s == IF Proceeds(v.err) THEN addTask(Q, c) ELSE Q
  IN /\ pc[c] = "idle"
     /\ \A b \in Calls : b < c => pc[b] # "idle"
     /\ delivered' = IF v.err.kind # "none"
                     THEN Delivery(c, [type |-> type, po |-> po], Rejected(v.err, NoData), 0, 0)
                     ELSE NoDelivery
     /\ settles' = [settles EXCEPT ![c] = IF v.err.kind # "none" THEN @ + 1 ELSE @]
     /\ pc' = [pc EXCEPT ![c] = IF Proceeds(v.err) THEN "queued" ELSE "done"]
     /\ args' = [args EXCEPT ![c] =
                   IF Proceeds(v.err)
                   THEN [type |-> type, po |-> [po EXCEPT !.url = v.param]]
                   ELSE @]
     /\ everConn' = [everConn EXCEPT ![c] = Proceeds(v.err) /\ connected]
     /\ queue' = s.queue
     /\ micro' = s.micro
     /\ asked' = IF Proceeds(v.err) THEN Append(asked, c) ELSE asked
     /\ UNCHANGED <<session, depth, unwind, outcome, sent, finished, extra>>

\* getInverterSetting, lines 825-829
getInverterSetting(c) ==
  \E type \in TypeInputs, func \in FuncInputs, sn \in SerialInputs :
    comInverter(c, type, ReadParamorgi(func, sn))

\* setInverterSetting, lines 831-835
setInverterSetting(c) ==
  \E type \in WriteTypeInputs, func \in WriteFuncInputs, sn \in SerialInputs, val \in ValInputs :
    comInverter(c, type, WriteParamorgi(func, sn, val))

\* qresolve / qreject of the comInverter of call c at nesting level l, on
\* the queue state s: settle that comInverter's promise with r, then
\* taskFinished.  The promise of a nested comInverter schedules the
\* reaction of line 904 (or, through the pass-through of .then, of line
\* 907); the promise of level 0 is the caller's.
Settle(c, l, r, s) ==
  LET s1 == IF l > 0
            THEN [s EXCEPT !.micro =
                    Append(@, Job(IF r.state = "resolved" THEN "then" ELSE "hop", c))]
            ELSE s
      s2 == taskFinished(s1)
  IN /\ queue' = s2.queue
     /\ micro' = s2.micro
     /\ IF l = 0
        THEN /\ Deliver(c, r)
             /\ finished' = [finished EXCEPT ![c] = 0]
        ELSE /\ outcome' = [outcome EXCEPT ![c] = r]
             /\ pc' = [pc EXCEPT ![c] = "unwinding"]
             /\ unwind' = [unwind EXCEPT ![c] = l]
             /\ finished' = [finished EXCEPT ![c] = @ + 1]
             /\ delivered' = NoDelivery
             /\ UNCHANGED <<args, depth, settles, sent, everConn>>

\* The continuation of the await of line 888, lines 889-896: reject when
\* the session is not connected, otherwise post the request.
Run(c) ==
  /\ micro # << >>
  /\ Head(micro) = Job("run", c)
  /\ asked' = SelectSeq(asked, LAMBDA x : x # c)
  /\ IF ~isConnected
     THEN Settle(c, depth[c], Rejected(Err("notConnected", ""), NoData),
                 [queue |-> queue, micro |-> Tail(micro)])
     ELSE /\ micro' = Tail(micro)
          /\ pc' = [pc EXCEPT ![c] = "inflight"]
          /\ sent' = [sent EXCEPT ![c] = @ + 1]
          /\ delivered' = NoDelivery
          /\ UNCHANGED <<queue, args, depth, unwind, outcome, settles, finished, everConn>>
  /\ UNCHANGED <<session, extra>>

\* What qresolve / qreject is called with on a response that ends the
\* command (lines 910-930): an error the parser throws at line 911 rejects
\* the promise of .then and reaches qreject through the .catch of line 927.
TerminalSwallow(br, d) ==
  CASE br = "parse" -> IF parseThrows(d) THEN Resolved(d) ELSE Resolved(parseRet(d))
    [] br = "raw" -> Resolved(d)
    [] br = "rejectPayload" -> Rejected(Err("payload", ""), d)
    [] OTHER -> Rejected(Err("unexpected", ""), NoData)
Terminal(br, d) ==
  CASE br = "parse" -> IF parseThrows(d) THEN Rejected(Err("parser", ""), d)
                       ELSE Resolved(parseRet(d))
    [] br = "raw" -> Resolved(d)
    [] br = "rejectPayload" -> Rejected(Err("payload", ""), d)
    [] OTHER -> Rejected(Err("unexpected", ""), NoData)

\* The .then handler of lines 897-926 on a response carrying d.
Response(c, d) ==
  LET v == Validate(args[c].type, args[c].po)
      br == AckBranch(d, v.checkRet)
  IN
  /\ micro = << >>
  /\ pc[c] = "inflight"
  /\ IF br = "retry"
     THEN \* lines 902-903: taskFinished, then comInverter again
          LET s1 == taskFinished(Q)
              s2 == IF Proceeds(v.err) THEN addTask(s1, c) ELSE s1
          IN /\ depth[c] < MaxRetry
             /\ queue' = s2.queue
             /\ micro' = s2.micro
             /\ depth' = [depth EXCEPT ![c] = @ + 1]
             /\ finished' = [finished EXCEPT ![c] = @ + 1]
             /\ pc' = [pc EXCEPT ![c] = "queued"]
             /\ asked' = IF Proceeds(v.err) THEN Append(asked, c) ELSE asked
             /\ delivered' = NoDelivery
             /\ args' = [args EXCEPT ![c].po.url = v.param]
             /\ UNCHANGED <<unwind, outcome, settles, sent, everConn>>
     ELSE /\ Settle(c, depth[c], Terminal(br, d), Q)
          /\ UNCHANGED asked
  /\ UNCHANGED <<session, extra>>

\* The .catch handler of lines 927-930: the request failed.
TransportErrorHolds(c) ==
  /\ micro = << >>
  /\ pc[c] = "inflight"
  /\ depth[c] = 0
  /\ Deliver(c, Rejected(Err("transport", ""), NoData))
  /\ finished' = [finished EXCEPT ![c] = 0]
  /\ UNCHANGED <<session, queue, micro, asked, extra>>
TransportError(c) ==
  /\ micro = << >>
  /\ pc[c] = "inflight"
  /\ Settle(c, depth[c], Rejected(Err("transport", ""), NoData), Q)
  /\ UNCHANGED <<session, asked, extra>>

\* The rejection of a nested comInverter passes through .then (line 904)
\* before it reaches .catch (line 907).
HopLost(c) ==
  /\ micro # << >>
  /\ Head(micro) = Job("hop", c)
  /\ micro' = Tail(micro)
  /\ delivered' = NoDelivery
  /\ UNCHANGED <<session, queue, percall, asked, extra>>
Hop(c) ==
  /\ micro # << >>
  /\ Head(micro) = Job("hop", c)
  /\ micro' = Append(Tail(micro), Job("catch", c))
  /\ delivered' = NoDelivery
  /\ UNCHANGED <<session, queue, percall, asked, extra>>

\* Lines 904-909: the nested comInverter settled, the enclosing one hands
\* the result to its own qresolve / qreject.
Unwind(c) ==
  /\ micro # << >>
  /\ Head(micro) \in {Job("then", c), Job("catch", c)}
  /\ Settle(c, unwind[c] - 1, outcome[c], [queue |-> queue, micro |-> Tail(micro)])
  /\ UNCHANGED <<session, asked, extra>>

\* login, lines 135-142: the synchronous part
login ==
  /\ loginPending < MaxLogins
  /\ connected' = FALSE
  /\ loginPending' = loginPending + 1
  /\ delivered' = NoDelivery
  /\ UNCHANGED <<cookie, queue, micro, percall, asked, extra>>

\* login, lines 145-149: the server accepted the login
loginOk ==
  /\ micro = << >>
  /\ loginPending > 0
  /\ loginPending' = loginPending - 1
  /\ cookie' = "JSESSIONID"
  /\ connected' = TRUE
  /\ loggedOut' = FALSE
  /\ everConn' = [c \in Calls |-> everConn[c] \/ pc[c] \notin {"idle", "done"}]
  /\ delivered' = NoDelivery
  /\ UNCHANGED <<queue, micro, pc, args, depth, unwind, outcome, settles,
                 sent, finished, asked, fetchPending, logoutPending, peer, aside>>

\* login, lines 150-165: the login was refused or the request failed
loginFail ==
  /\ micro = << >>
  /\ loginPending > 0
  /\ loginPending' = loginPending - 1
  /\ delivered' = NoDelivery
  /\ UNCHANGED <<connected, cookie, queue, micro, percall, asked, extra>>

Next ==
  \/ \E c \in Calls : getInverterSetting(c)
  \/ \E c \in Calls : setInverterSetting(c)
  \/ \E c \in Calls : Run(c)
  \/ \E c \in Calls, d \in Payloads : Response(c, d)
  \/ \E c \in Calls : TransportError(c)
  \/ \E c \in Calls : Hop(c)
  \/ \E c \in Calls : Unwind(c)
  \/ login
  \/ loginOk
  \/ loginFail

Spec == Init /\ [][Next]_vars

\* ------------------------------------------- validation, encoding, parsing
\* The same client under calls that cover the validation and the response
\* handling: both functions, values that are valid, out of range, partly
\* or wholly missing and absent, and payloads with and without success
\* indicator and completion message, one of which the parser cannot parse.
MaxWrites == 2          \* calls of this specification

CodecCalls == 1..MaxWrites
CodecFuncInputs == {"time", "period"}
CodecVals(func) ==
  IF func = "time"
  THEN {ObjVal(<< <<"param1", 5>> >>), ObjVal(<< <<"param1", 30>> >>)}
  ELSE {ObjVal(<< <<"param1", 8>>, <<"param2", 30>> >>),
        ObjVal(<< <<"param1", 8>> >>), ObjVal(<< >>), NoVal}
CodecPayloads == Payloads \cup {Payload(Undefined, ""), Payload("true", "malformed")}

\* getInverterSetting, lines 825-829, on the functions of the registry
getInverterSettingOf(c) ==
  \E func \in CodecFuncInputs : comInverter(c, "tlx", ReadParamorgi(func, "SN1"))

\* setInverterSetting, lines 831-835, on the functions of the registry
setInverterSettingOf(c) ==
  \E func \in CodecFuncInputs : \E val \in CodecVals(func) :
    comInverter(c, "tlx", WriteParamorgi(func, "SN1", val))

NextCodec ==
  \/ \E c \in CodecCalls : getInverterSettingOf(c)
  \/ \E c \in CodecCalls : setInverterSettingOf(c)
  \/ \E c \in Calls : Run(c)
  \/ \E c \in Calls, d \in CodecPayloads : Response(c, d)
  \/ \E c \in Calls : TransportError(c)
  \/ \E c \in Calls : Hop(c)
  \/ \E c \in Calls : Unwind(c)
  \/ login
  \/ loginOk
  \/ loginFail

SpecCodec == Init /\ [][NextCodec]_vars

\* ----------------------------------------------------------------- session
\* The same client under the operations that touch this.connected and
\* this.cookie: login, logout, telemetry fetches and one inverter command.
MaxFetch == 1           \* telemetry requests in flight at once

FetchTotal ==
  fetchPending["getPlantList"] + fetchPending["getDevicesByPlantList"]
    + fetchPending["getDeviceDayChart"]

\* What the caller of a telemetry method is handed.
FetchDelivery(m, r) == Delivery(0, [type |-> m, po |-> NoArgs.po], r, 0, 0)

\* getPlantList / getDevicesByPlantList up to the post (lines 266-270,
\* 301-306): nothing of the session is written.
telemetry(m) ==
  /\ m \in {"getPlantList", "getDevicesByPlantList"}
  /\ FetchTotal < MaxFetch
  /\ fetchPending' = [fetchPending EXCEPT ![m] = @ + 1]
  /\ delivered' = NoDelivery
  /\ UNCHANGED <<session, queue, micro, percall, asked, logoutPending, peer, aside, loggedOut>>

\* this.cookie += ... of lines 609-612: the chart cookies are appended
\* unless the cookie holds them already.
AppendChart(ck) ==
  CASE ck = "" -> ",selectedPlantId"
    [] ck = "JSESSIONID" -> "JSESSIONID,selectedPlantId"
    [] OTHER -> ck

\* getDeviceChart, lines 603-623, with #getDeviceDayChart up to its post
getDeviceChart ==
  /\ FetchTotal < MaxFetch
  /\ cookie' = AppendChart(cookie)
  /\ fetchPending' = [fetchPending EXCEPT !["getDeviceDayChart"] = @ + 1]
  /\ delivered' = NoDelivery
  /\ UNCHANGED <<connected, loginPending, queue, micro, percall, asked, logoutPending, peer, aside, loggedOut>>

\* The .then handler of a telemetry request: resolve, or reject on a
\* payload that reports an error or is not the expected one.  Only
\* getPlantList (line 277) clears this.connected here.
telemetryThenDrops(m, o) ==
  /\ micro = << >>
  /\ fetchPending[m] > 0
  /\ m = "getPlantList" => o # "rejectPayload"
  /\ fetchPending' = [fetchPending EXCEPT ![m] = @ - 1]
  /\ connected' = IF o # "resolve" THEN FALSE ELSE connected
  /\ delivered' = FetchDelivery(m, IF o = "resolve" THEN Resolved(NoData)
                                   ELSE Rejected(Err(o, ""), NoData))
  /\ UNCHANGED <<cookie, loginPending, queue, micro, percall, asked, logoutPending, peer, aside, loggedOut>>
telemetryThen(m, o) ==
  /\ micro = << >>
  /\ fetchPending[m] > 0
  /\ m = "getPlantList" => o # "rejectPayload"
  /\ fetchPending' = [fetchPending EXCEPT ![m] = @ - 1]
  /\ connected' = IF m = "getPlantList" /\ o # "resolve" THEN FALSE ELSE connected
  /\ delivered' = FetchDelivery(m, IF o = "resolve" THEN Resolved(NoData)
                                   ELSE Rejected(Err(o, ""), NoData))
  /\ UNCHANGED <<cookie, loginPending, queue, micro, percall, asked, logoutPending, peer, aside, loggedOut>>

\* The .catch handler of a telemetry request (lines 286-290, 324-328,
\* 656-660): this.connected = false, reject.
telemetryCatch(m) ==
  /\ micro = << >>
  /\ fetchPending[m] > 0
  /\ fetchPending' = [fetchPending EXCEPT ![m] = @ - 1]
  /\ connected' = FALSE
  /\ delivered' = FetchDelivery(m, Rejected(Err("transport", ""), NoData))
  /\ UNCHANGED <<cookie, loginPending, queue, micro, percall, asked, logoutPending, peer, aside, loggedOut>>

\* What the caller of logout is handed.
LogoutDelivery(r) == Delivery(0, [type |-> "logout", po |-> NoArgs.po], r, 0, 0)

\* logout, lines 241-246: the synchronous part
logout ==
  /\ logoutPending < MaxLogins
  /\ logoutPending' = logoutPending + 1
  /\ delivered' = NoDelivery
  /\ UNCHANGED <<session, queue, micro, percall, asked, fetchPending, peer, aside, loggedOut>>

\* logout, lines 247-252: the request succeeded
logoutOkKeeps ==
  /\ micro = << >>
  /\ logoutPending > 0
  /\ logoutPending' = logoutPending - 1
  /\ cookie' = ""
  /\ loggedOut' = TRUE
  /\ delivered' = LogoutDelivery(Resolved(NoData))
  /\ UNCHANGED <<connected, loginPending, queue, micro, percall, asked, fetchPending,
                 peer, aside>>
logoutOk ==
  /\ micro = << >>
  /\ logoutPending > 0
  /\ logoutPending' = logoutPending - 1
  /\ cookie' = ""
  /\ connected' = FALSE
  /\ loggedOut' = TRUE
  /\ delivered' = LogoutDelivery(Resolved(NoData))
  /\ UNCHANGED <<loginPending, queue, micro, percall, asked, fetchPending, peer, aside>>

\* logout, lines 253-256: the request failed
logoutFailResets ==
  /\ micro = << >>
  /\ logoutPending > 0
  /\ logoutPending' = logoutPending - 1
  /\ cookie' = ""
  /\ connected' = FALSE
  /\ delivered' = LogoutDelivery(Rejected(Err("transport", ""), NoData))
  /\ UNCHANGED <<loginPending, queue, micro, percall, asked, fetchPending, peer, aside, loggedOut>>
logoutFail ==
  /\ micro = << >>
  /\ logoutPending > 0
  /\ logoutPending' = logoutPending - 1
  /\ delivered' = LogoutDelivery(Rejected(Err("transport", ""), NoData))
  /\ UNCHANGED <<session, queue, micro, percall, asked, fetchPending, peer, aside, loggedOut>>

NextSession ==
  \/ \E m \in FetchMethods : telemetry(m)
  \/ getDeviceChart
  \/ \E m \in FetchMethods, o \in {"rejectUnexpected", "rejectPayload", "resolve"} :
        telemetryThen(m, o)
  \/ \E m \in FetchMethods : telemetryCatch(m)
  \/ logout
  \/ logoutOk
  \/ logoutFail
  \/ login
  \/ loginOk
  \/ loginFail
  \/ \E c \in {1} : setInverterSetting(c)
  \/ \E c \in Calls : Run(c)
  \/ \E c \in Calls, d \in Payloads : Response(c, d)
  \/ \E c \in Calls : TransportError(c)
  \/ \E c \in Calls : Hop(c)
  \/ \E c \in Calls : Unwind(c)

SpecSession == Init /\ [][NextSession]_vars

\* ---------------------------------------------------------------- registry
\* The same client under an application that asks for the communication
\* map of a device type and assigns to what it was handed, and one
\* inverter command.
ParamRefs(type) ==
  UNION {{<<type, func, i>> : i \in 1..Len(GROWATTTYPE[type].comInverter[func].param)} :
           func \in DOMAIN GROWATTTYPE[type].comInverter}
FieldWrites == {<<"type", "INUM_0_100">>, <<"name", "Hours">>}

\* getInverterCommunication, lines 806-823: ret[key] and ret[key].param are
\* new objects; Object.assign (line 812) fills ret[key].param with the
\* parameter descriptor objects of the registry themselves.
getInverterCommunication(type) ==
  /\ type \in DOMAIN GROWATTTYPE
  /\ view' = ParamRefs(type)
  /\ delivered' = NoDelivery
  /\ UNCHANGED <<session, queue, micro, percall, asked, fetchPending, logoutPending,
                 peer, guestPending, loggedOut, written, pager>>

\* ret[func] = ...: the application replaces a function entry (line 811)
\* of the map it holds.
putEntry(func) ==
  /\ \E r \in view : r[2] = func
  /\ view' = {r \in view : r[2] # func}
  /\ delivered' = NoDelivery
  /\ UNCHANGED <<session, queue, micro, percall, asked, fetchPending, logoutPending,
                 peer, guestPending, loggedOut, written, pager>>

\* ret[func].param[key] = ...: the application replaces an entry of a
\* parameter map (line 812) of the map it holds.
putParam(r) ==
  /\ r \in view
  /\ view' = view \ {r}
  /\ delivered' = NoDelivery
  /\ UNCHANGED <<session, queue, micro, percall, asked, fetchPending, logoutPending,
                 peer, guestPending, loggedOut, written, pager>>

\* ret[func].param[key].type = ... or .name = ...: the application assigns
\* to a field of a parameter it was handed; the object is the registry's.
setParamField(r, w) ==
  /\ r \in view
  /\ written' = {x \in written : ~(x[1] = r /\ x[2] = w[1])} \cup {<<r, w[1], w[2]>>}
  /\ delivered' = NoDelivery
  /\ UNCHANGED <<session, queue, micro, percall, asked, fetchPending, logoutPending,
                 peer, guestPending, loggedOut, view, pager>>

NextRegistry ==
  \/ \E type \in DOMAIN GROWATTTYPE : getInverterCommunication(type)
  \/ \E func \in DOMAIN GROWATTTYPE["tlx"].comInverter : putEntry(func)
  \/ \E r \in ParamRefs("tlx") : putParam(r)
  \/ \E r \in ParamRefs("tlx"), w \in FieldWrites : setParamField(r, w)
  \/ \E c \in {1} : getInverterSettingOf(c)
  \/ \E c \in {1} : setInverterSettingOf(c)
  \/ \E c \in Calls : Run(c)
  \/ \E c \in Calls, d \in Payloads : Response(c, d)
  \/ \E c \in Calls : TransportError(c)
  \/ \E c \in Calls : Hop(c)
  \/ \E c \in Calls : Unwind(c)
  \/ login
  \/ loginOk
  \/ loginFail

SpecRegistry == Init /\ [][NextRegistry]_vars

\* ------------------------------------------------------------------ logins
\* The same client under the three ways to log in, which may overlap, and
\* commands that find the session as the logins leave it.
MaxGuest == 1           \* demoLogin / sharePlantLogin requests in flight at once

\* demoLogin, lines 169-175: the synchronous part
demoLogin ==
  /\ guestPending < MaxGuest
  /\ connected' = FALSE
  /\ guestPending' = guestPending + 1
  /\ delivered' = NoDelivery
  /\ UNCHANGED <<cookie, loginPending, queue, micro, percall, asked, fetchPending,
                 logoutPending, peer, loggedOut, view, written, pager>>

\* sharePlantLogin, lines 200-212: the synchronous part
sharePlantLogin ==
  /\ guestPending < MaxGuest
  /\ connected' = FALSE
  /\ guestPending' = guestPending + 1
  /\ delivered' = NoDelivery
  /\ UNCHANGED <<cookie, loginPending, queue, micro, percall, asked, fetchPending,
                 logoutPending, peer, loggedOut, view, written, pager>>

\* The .then handler of demoLogin (lines 176-191) and of sharePlantLogin
\* (lines 213-227): the cookie of the response is stored, and the client
\* is connected when it holds a session id.
guestLoginThen(ck) ==
  /\ micro = << >>
  /\ guestPending > 0
  /\ guestPending' = guestPending - 1
  /\ cookie' = ck
  /\ connected' = IF ck = "JSESSIONID" THEN TRUE ELSE connected
  /\ loggedOut' = IF ck = "JSESSIONID" THEN FALSE ELSE loggedOut
  /\ everConn' = IF ck = "JSESSIONID"
                 THEN [c \in Calls |-> everConn[c] \/ pc[c] \notin {"idle", "done"}]
                 ELSE everConn
  /\ delivered' = NoDelivery
  /\ UNCHANGED <<loginPending, queue, micro, pc, args, depth, unwind, outcome, settles,
                 sent, finished, asked, fetchPending, logoutPending, peer, view, written, pager>>

\* The .catch handler of demoLogin (lines 193-196) and of sharePlantLogin
\* (lines 229-232)
guestLoginCatch ==
  /\ micro = << >>
  /\ guestPending > 0
  /\ guestPending' = guestPending - 1
  /\ delivered' = NoDelivery
  /\ UNCHANGED <<session, queue, micro, percall, asked, fetchPending, logoutPending,
                 peer, loggedOut, view, written, pager>>

NextLogin ==
  \/ login
  \/ loginOk
  \/ loginFail
  \/ demoLogin
  \/ sharePlantLogin
  \/ \E ck \in {"JSESSIONID", "lang=en"} : guestLoginThen(ck)
  \/ guestLoginCatch
  \/ \E c \in CodecCalls : setInverterSetting(c)
  \/ \E c \in Calls : Run(c)
  \/ \E c \in Calls, d \in Payloads : Response(c, d)
  \/ \E c \in Calls : TransportError(c)
  \/ \E c \in Calls : Hop(c)
  \/ \E c \in Calls : Unwind(c)

SpecLogin == Init /\ [][NextLogin]_vars

\* ----------------------------------------------------------- two instances
\* A second instance of the class in the same process: its constructor
\* gave it its own queue, flag and cookie (peer); the promise jobs of both
\* instances share the one microtask queue.  The second instance issues one
\* command, call 0, which is answered with a terminal payload or fails.
PeerCall == 0

\* this.queue of the second instance, with the pending promise jobs
peerQShared == [queue |-> queue, micro |-> micro]
peerQ == [queue |-> peer.queue, micro |-> micro]

own == <<session, queue, percall, asked>>

\* login of the second instance, lines 135-142
peerLogin ==
  /\ peer.loginPending < MaxLogins
  /\ peer' = [peer EXCEPT !.connected = FALSE, !.loginPending = @ + 1]
  /\ delivered' = NoDelivery
  /\ UNCHANGED <<own, micro, fetchPending, logoutPending, aside, loggedOut>>

\* login of the second instance, lines 145-149
peerLoginOk ==
  /\ micro = << >>
  /\ peer.loginPending > 0
  /\ peer' = [peer EXCEPT !.connected = TRUE, !.cookie = "JSESSIONID",
                          !.loginPending = @ - 1]
  /\ delivered' = NoDelivery
  /\ UNCHANGED <<own, micro, fetchPending, logoutPending, aside, loggedOut>>

\* setInverterSetting of the second instance with valid values, up to the
\* await of line 888
peerComInverter ==
  LET s == addTask(peerQ, PeerCall)
  IN /\ peer.pc = "idle"
     /\ peer' = [peer EXCEPT !.queue = s.queue, !.pc = "queued"]
     /\ micro' = s.micro
     /\ delivered' = NoDelivery
     /\ UNCHANGED <<own, fetchPending, logoutPending, aside, loggedOut>>

\* Lines 889-896 for the second instance's command
peerRun ==
  /\ micro # << >>
  /\ Head(micro) = Job("run", PeerCall)
  /\ IF ~peer.connected
     THEN LET s == taskFinished([peerQ EXCEPT !.micro = Tail(micro)])
          IN /\ peer' = [peer EXCEPT !.queue = s.queue, !.pc = "done"]
             /\ micro' = s.micro
     ELSE /\ peer' = [peer EXCEPT !.pc = "inflight"]
          /\ micro' = Tail(micro)
  /\ delivered' = NoDelivery
  /\ UNCHANGED <<own, fetchPending, logoutPending, aside, loggedOut>>

\* Lines 897-930 for the second instance's command: a terminal payload or
\* a failure; qresolve / qreject release the slot of its queue.
peerResponse ==
  LET s == taskFinished(peerQ)
  IN /\ micro = << >>
     /\ peer.pc = "inflight"
     /\ peer' = [peer EXCEPT !.queue = s.queue, !.pc = "done"]
     /\ micro' = s.micro
     /\ delivered' = NoDelivery
     /\ UNCHANGED <<own, fetchPending, logoutPending, aside, loggedOut>>

NextTwo ==
  \/ peerLogin
  \/ peerLoginOk
  \/ peerComInverter
  \/ peerRun
  \/ peerResponse
  \/ login
  \/ loginOk
  \/ loginFail
  \/ \E c \in CodecCalls : setInverterSetting(c)
  \/ \E c \in Calls : Run(c)
  \/ \E c \in Calls, d \in Payloads : Response(c, d)
  \/ \E c \in Calls : TransportError(c)
  \/ \E c \in Calls : Hop(c)
  \/ \E c \in Calls : Unwind(c)

SpecTwo == Init /\ [][NextTwo]_vars

\* ------------------------------------------- a bridge that never completes
\* The same client against a bridge that answers every request with an
\* empty completion message, on a transport that never fails.
AckPayload == Payload("true", "")

NextAck ==
  \/ \E c \in Calls : setInverterSetting(c)
  \/ \E c \in Calls : Run(c)
  \/ \E c \in Calls : Response(c, AckPayload)
  \/ \E c \in Calls : Hop(c)
  \/ \E c \in Calls : Unwind(c)
  \/ login
  \/ loginOk
  \/ loginFail

SpecAck == Init /\ [][NextAck]_vars

\* ------------------------------------------------------------------ grants
\* The same client under an application that addresses inverter SN1 while
\* it sees the client connected and inverter SN2 while it does not, so
\* that a command tells what isConnected() returned when it was called.
setInverterSettingSeen(c) ==
  comInverter(c, "tlx",
              WriteParamorgi("time", IF isConnected THEN "SN1" ELSE "SN2",
                             ObjVal(<< <<"param1", 5>> >>)))

NextGrant ==
  \/ \E c \in Calls : setInverterSettingSeen(c)
  \/ \E c \in Calls : Run(c)
  \/ \E c \in Calls, d \in Payloads : Response(c, d)
  \/ \E c \in Calls : TransportError(c)
  \/ \E c \in Calls : Hop(c)
  \/ \E c \in Calls : Unwind(c)
  \/ login
  \/ loginOk
  \/ loginFail

SpecGrant == Init /\ [][NextGrant]_vars

\* ----------------------------------------------------------------- retries
\* The same client under two inverter commands and everything that clears
\* this.connected while a command waits for its next grant: a login
\* attempt, a logout, a telemetry request that fails.
NextRetry ==
  \/ \E c \in {1, 2} : setInverterSetting(c)
  \/ \E c \in Calls : Run(c)
  \/ \E c \in Calls, d \in Payloads : Response(c, d)
  \/ \E c \in Calls : Hop(c)
  \/ \E c \in Calls : Unwind(c)
  \/ login
  \/ loginOk
  \/ logout
  \/ logoutOk
  \/ telemetry("getPlantList")
  \/ telemetryCatch("getPlantList")

SpecRetry == Init /\ [][NextRetry]_vars

\* ------------------------------------------------------------ device pages
\* getAllPlantData with deviceData on one plant, from the request of line
\* 1078 to the end of the page loop of lines 1083-1091, with the
\* getDevicesByPlantList (lines 300-330) it calls, under logins and
\* logouts.  What getAllPlantData does before line 1076 and in the device
\* loop of lines 1093-1114 neither reads nor writes devices.obj.pages or p.
MaxPages == 3           \* devices.obj.pages of a response

\* What the caller of getAllPlantData is handed.
PlantDelivery(r) == Delivery(0, [type |-> "getAllPlantData", po |-> NoArgs.po], r, 0, 0)

\* getAllPlantData up to the await of line 1078: the first request asks
\* for page 1.
getAllPlantData ==
  /\ pager.stage \in {"idle", "done", "failed"}
  /\ fetchPending["getDevicesByPlantList"] = 0
  /\ fetchPending' = [fetchPending EXCEPT !["getDevicesByPlantList"] = @ + 1]
  /\ pager' = Pager("first", 0, 1, <<1>>)
  /\ delivered' = NoDelivery
  /\ UNCHANGED <<session, queue, micro, percall, asked, logoutPending, peer,
                 guestPending, loggedOut, view, written>>

\* The loop of lines 1084-1091 from p on, n = devices.obj.pages:
\* for (let p = 1; p < devices.obj.pages; p += 1) requests page p.
pageLoop(p, n) ==
  IF p < n
  THEN /\ fetchPending' = fetchPending
       /\ pager' = Pager("more", n, p, Append(pager.requested, p))
       /\ delivered' = NoDelivery
  ELSE /\ fetchPending' = [fetchPending EXCEPT !["getDevicesByPlantList"] = @ - 1]
       /\ pager' = Pager("done", n, 0, pager.requested)
       /\ delivered' = PlantDelivery(Resolved(NoData))

\* A request for a page resolves (lines 314-316) with a payload whose
\* obj.pages is n (0: none reported): after the first page the loop starts
\* at p = 1 with the pages of that response (lines 1082-1084), after a
\* later page it goes on with p + 1 (lines 1084, 1090).  The request that
\* ended and the one posted leave the number in flight as it is.
devicesThen(n) ==
  /\ micro = << >>
  /\ pager.stage \in {"first", "more"}
  /\ fetchPending["getDevicesByPlantList"] > 0
  /\ IF pager.stage = "first"
     THEN pageLoop(1, n)
     ELSE pageLoop(pager.currPage + 1, pager.pages)
  /\ UNCHANGED <<session, queue, micro, percall, asked, logoutPending, peer,
                 guestPending, loggedOut, view, written>>

\* A request for a page is rejected: by a payload that reports an error
\* or is not the expected one (lines 317-326) or, with this.connected
\* cleared, by the transport (lines 324-328).  The .catch of line 1079 or
\* 1087 rejects getAllPlantData's promise; after the first page the walk
\* ends there (line 1082), after a later page line 1090 throws on the
\* undefined devicesPlus.
devicesFail(transport) ==
  /\ micro = << >>
  /\ pager.stage \in {"first", "more"}
  /\ fetchPending["getDevicesByPlantList"] > 0
  /\ fetchPending' = [fetchPending EXCEPT !["getDevicesByPlantList"] = @ - 1]
  /\ connected' = IF transport THEN FALSE ELSE connected
  /\ pager' = Pager("failed", pager.pages, 0, pager.requested)
  /\ delivered' = PlantDelivery(Rejected(Err(IF transport THEN "transport" ELSE "rejectPayload", ""),
                                         NoData))
  /\ UNCHANGED <<cookie, loginPending, queue, micro, percall, asked, logoutPending, peer,
                 guestPending, loggedOut, view, written>>

NextPages ==
  \/ getAllPlantData
  \/ \E n \in 0..MaxPages : devicesThen(n)
  \/ \E transport \in BOOLEAN : devicesFail(transport)
  \/ login
  \/ loginOk
  \/ loginFail
  \/ logout
  \/ logoutOk
  \/ logoutFail

SpecPages == Init /\ [][NextPages]_vars

\* ---------------------------------------------------------------- progress
\* The same client under the scheduling the platform gives: a pending
\* promise job is always run, and every posted request ends in a response
\* or, at the latest when the transport's timeout fires, in a failure.  A
\* call is answered with an empty completion message at most MaxRetry
\* times.
NextLive ==
  \/ \E c \in CodecCalls : setInverterSetting(c)
  \/ \E c \in Calls : Run(c)
  \/ \E c \in Calls, d \in Payloads : Response(c, d)
  \/ \E c \in Calls : TransportError(c)
  \/ \E c \in Calls : Hop(c)
  \/ \E c \in Calls : Unwind(c)
  \/ login
  \/ loginOk
  \/ loginFail

Fairness ==
  /\ WF_vars(\E c \in Calls : Run(c) \/ Hop(c) \/ Unwind(c))
  /\ \A c \in Calls : WF_vars(TransportError(c) \/ \E d \in Payloads : Response(c, d))

SpecLive == Init /\ [][NextLive]_vars /\ Fairness

TypeOK ==
  /\ connected \in BOOLEAN
  /\ \A c \in Calls : pc[c] \in {"idle", "done", "queued", "unwinding", "inflight"}
  /\ \A c \in Calls : depth[c] \in 0..MaxRetry /\ unwind[c] \in 0..MaxRetry

\* ------------------------------------------------------------------ claims
Range(f) == {f[i] : i \in DOMAIN f}
Active(c) == pc[c] \in {"queued", "unwinding", "inflight"}
HasRunJob(c) == Job("run", c) \in Range(micro)
InFlight == {c \in Calls : pc[c] = "inflight"}
NotConnectedError == Rejected(Err("notConnected", ""), NoData)

\* What the innermost comInverter of call c settled with: handed to the
\* caller by the last step, or on its way through the enclosing levels.
Result(c) == IF delivered.call = c THEN delivered.result ELSE outcome[c]
Settled(c) == pc[c] = "unwinding" \/ delivered.call = c

\* C1: at most one inverter command has a request to the bridge endpoint in
\* flight at any instant.
C1_MutualExclusion == Cardinality(InFlight) <= 1

\* C2: a call made after another call sends no request before the earlier
\* call has been resolved or rejected to its caller.
C2_LaterBlocked ==
  \A a, b \in Calls : (a < b /\ sent[b] > 0) => pc[a] = "done"

\* C3: commands are granted the slot in the order of their addTask calls:
\* the continuations scheduled to run are, in order, the longest-waiting
\* callers of addTask.
C3_FifoAdmission ==
  LET g == SelectSeq(micro, LAMBDA j : j.kind = "run")
  IN /\ Len(g) <= Len(asked)
     /\ \A i \in 1..Len(g) : g[i].call = asked[i]

\* C3 witness: a command has just terminated on a response and the
\* longest-waiting of two waiting commands was granted the slot.
C3_Witness ==
  /\ Len(asked) >= 2
  /\ HasRunJob(asked[1])
  /\ ~HasRunJob(asked[2])
  /\ delivered.call # 0 /\ delivered.sent > 0

\* C4: taskFinished is invoked for a command only when the command has
\* reached a terminal state; an empty-msg acknowledgment invokes nothing.
C4_CompleteOnlyWhenTerminal ==
  [][\A c \in Calls : finished'[c] > finished[c] => pc'[c] \in {"done", "unwinding"}]_vars

\* C5: every call ends resolved or rejected exactly once: the caller's
\* resolve/reject is called at most once, exactly once when the call is
\* over, and a pending call is never dropped (it waits behind a command
\* that holds the slot, or is scheduled, in flight, or settling).
C5_ExactlyOnce ==
  \A c \in Calls :
    /\ settles[c] <= 1
    /\ (pc[c] = "done") <=> (settles[c] = 1)
    /\ delivered.call = c =>
          pc[c] = "done" /\ delivered.result.state \in {"resolved", "rejected"}
    /\ pc[c] = "queued" =>
          \/ HasRunJob(c)
          \/ \E i \in 2..Len(queue) :
                /\ queue[i] = c
                /\ pc[queue[1]] = "inflight" \/ HasRunJob(queue[1])
    /\ pc[c] = "unwinding" =>
          \E k \in {"then", "hop", "catch"} : Job(k, c) \in Range(micro)

\* C5 witness: a call that went through a retry is handed its result
\* while another call is over.
C5_Witness ==
  /\ delivered.call # 0
  /\ delivered.retries >= 1
  /\ delivered.result.state = "resolved"
  /\ \E c \in Calls : c # delivered.call /\ pc[c] = "done"

\* C6: a transport failure of an executing command sets the connectivity
\* flag to false.
C6_TransportFailureDisconnects ==
  [][\A c \in Calls :
       (pc[c] = "inflight" /\ Result(c)'.err.kind = "transport") => ~connected']_vars

\* C7: a payload with success false and a non-empty completion message is
\* never delivered as a successful result: the command rejects.
C7_ServerRejectionRejects ==
  \A c \in Calls :
    (/\ Settled(c)
     /\ Result(c).value.data
     /\ Result(c).value.success = "false"
     /\ Result(c).value.msg \notin {Undefined, ""})
    => Result(c).state = "rejected"

\* C7 amended: a payload that carries no success indicator is never
\* delivered as a successful result: the command rejects with an error
\* carrying the payload, and it no longer holds the slot.
C7_NoIndicatorRejects ==
  \A c \in Calls :
    (/\ Settled(c)
     /\ Result(c).value.data
     /\ Result(c).value.success = Undefined)
    => /\ Result(c).state = "rejected"
       /\ Result(c).err.kind = "payload"
       /\ c \notin Range(queue)

\* C7 witness: a command is rejected with a payload without success
\* indicator.
C7_Witness ==
  /\ delivered.call # 0
  /\ delivered.result = Rejected(Err("payload", ""), Payload(Undefined, "error"))

\* C8: a command that finds the session not connected when it is granted
\* the slot rejects with the not-connected error, posts no request and
\* releases the slot.
C8_NotConnectedRejects ==
  [][\A c \in Calls :
       (pc[c] = "queued" /\ pc'[c] # "queued" /\ ~connected) =>
         /\ pc'[c] \in {"done", "unwinding"}
         /\ Result(c)' = NotConnectedError
         /\ sent'[c] <= sent[c]
         /\ InFlight' = InFlight
         /\ c \notin Range(queue')]_vars

\* C8 witness: a command is rejected as not connected and the command
\* behind it is granted the slot.
C8_Witness ==
  /\ delivered.call # 0
  /\ delivered.result = NotConnectedError
  /\ \E d \in Calls : pc[d] = "queued" /\ queue = <<d>> /\ HasRunJob(d)

\* C9: commands called while the session is disconnected and never
\* connected since post no request, reject with the not-connected error,
\* and do so in the order in which they were called.
C9_DisconnectedInOrder ==
  [][\A b \in Calls :
       (Active(b) /\ ~everConn[b]) =>
         /\ sent[b] = 0 /\ pc'[b] # "inflight"
         /\ pc'[b] = "done" =>
               /\ delivered'.call = b
               /\ delivered'.result = NotConnectedError
               /\ delivered'.sent = 0
               /\ \A a \in Calls : (a < b /\ ~everConn[a]) => pc[a] = "done"]_vars

\* C9 witness: two writes were called back-to-back on a session that never
\* logged in; the first is rejected as not connected and the second is
\* granted the slot.
C9_Witness ==
  \E a, b \in Calls :
    /\ a < b /\ cookie = "" /\ queue = <<b>>
    /\ delivered.call = a /\ delivered.result = NotConnectedError
    /\ delivered.args.po.action = "writeParam" /\ delivered.sent = 0
    /\ pc[b] = "queued" /\ HasRunJob(b) /\ args[b].po.action = "writeParam"

\* C10: a call naming an unknown device type or an unknown function never
\* calls addTask: every command that waits, runs or settles names a type
\* and a function of the registry.
C10_UnknownNeverQueued ==
  \A c \in Calls :
    (Active(c) \/ c \in Range(queue)) =>
      /\ args[c].type \in DOMAIN GROWATTTYPE
      /\ args[c].po.func \in DOMAIN GROWATTTYPE[args[c].type].comInverter

\* ------------------------------------- claims on validation and responses
\* The arguments of call c: of the call the last step handed its result to,
\* or of the pending call.
ArgsOf(c) == IF delivered.call = c THEN delivered.args ELSE args[c]
IsWrite(a) == a.po.action = "writeParam"
IsRead(a) == a.po.action = "readParam"
Declared(a) == Descriptor(a.type, a.po.func).param
DeclaresParser(a) == Descriptor(a.type, a.po.func).parseRet # Undefined
Supplied(a, key) ==
  a.po.val.kind = "object" /\ \E i \in 1..Len(a.po.val.fields) : a.po.val.fields[i][1] = key
OutOfRange(a, key) ==
  \E i \in 1..Len(a.po.val.fields) :
    /\ a.po.val.fields[i][1] = key
    /\ a.po.val.fields[i][2] < 0 \/ a.po.val.fields[i][2] > 23
\* The first declared parameter whose supplied value is out of range, all
\* parameters before it being supplied and in range (0 when there is none).
FirstInvalid(a) ==
  LET p == Declared(a)
      bad == {i \in 1..Len(p) :
                /\ Supplied(a, p[i].key) /\ OutOfRange(a, p[i].key)
                /\ \A j \in 1..(i - 1) : Supplied(a, p[j].key) /\ ~OutOfRange(a, p[j].key)}
  IN IF bad = {} THEN 0 ELSE CHOOSE i \in bad : TRUE
Called(c) == pc[c] = "idle" /\ pc'[c] # "idle"

\* C11: a write that supplies an out-of-range value for a declared
\* parameter is rejected by the call itself with the validation error
\* naming that parameter, and the call changes nothing else: not the queue,
\* not the scheduled continuations, not the session, not any other call.
C11_InvalidLeavesQueue ==
  [][\A c \in Calls :
       (Called(c) /\ IsWrite(ArgsOf(c)') /\ FirstInvalid(ArgsOf(c)') # 0) =>
         /\ pc'[c] = "done"
         /\ delivered'.call = c
         /\ delivered'.result.state = "rejected"
         /\ delivered'.result.err.kind = "incorrect"
         /\ delivered'.result.err.name =
              Declared(delivered'.args)[FirstInvalid(delivered'.args)].name
         /\ queue' = queue /\ micro' = micro /\ asked' = asked
         /\ UNCHANGED <<session, args, depth, unwind, outcome, sent, finished, everConn>>
         /\ \A b \in Calls \ {c} : pc'[b] = pc[b] /\ settles'[b] = settles[b]]_vars

\* C11 witness: the second parameter of a write is out of range and the
\* write is rejected while another command holds the slot.
C11_Witness ==
  /\ delivered.call # 0
  /\ IsWrite(delivered.args)
  /\ delivered.result.err.kind = "incorrect"
  /\ delivered.result.err.name = "End hour"
  /\ queue # << >>

\* C12: no write is queued or sent while a parameter its function declares
\* is missing from the supplied values.
C12_MissingNeverQueued ==
  \A c \in Calls :
    (Active(c) /\ IsWrite(args[c])) =>
      \A i \in 1..Len(Declared(args[c])) : Supplied(args[c], Declared(args[c])[i].key)

C17_EmptyMsgNeverSurfaced ==
  \A c \in Calls :
    Settled(c) => ~(Result(c).value.data /\ Result(c).value.msg = "")

\* C17 amended: no command resolves or rejects with a payload that carries
\* a success indicator and an empty completion message; a command that
\* rejects with a payload whose completion message is empty rejects with
\* the payload error, the payload carrying no success indicator.
C17_AckNeverSurfaced ==
  \A c \in Calls :
    (Settled(c) /\ Result(c).value.data /\ Result(c).value.msg = "") =>
      /\ Result(c).value.success = Undefined
      /\ Result(c).state = "rejected"
      /\ Result(c).err.kind = "payload"

\* C17 witness: a command that was answered with an empty completion
\* message went through a retry and is handed the payload that ended it.
C17_Witness ==
  /\ delivered.call # 0 /\ delivered.retries >= 1
  /\ delivered.result.value.data
  /\ delivered.result.value.msg # ""

\* The wire fields of a command that passed validation and the inputs of
\* its call.
Encoded(c) == Active(c) \/ (delivered.call = c /\ delivered.result.err.kind \notin
                              {"missing", "incorrect", "unknownAction", "unknownFunction"})
SameInputs(a, b) ==
  /\ a.type = b.type
  /\ a.po.action = b.po.action
  /\ a.po.func = b.po.func
  /\ a.po.val = b.po.val
  /\ a.po.url.serialNum = b.po.url.serialNum

C15_Termination ==
  /\ \A c \in Calls : Active(c) ~> (pc[c] = "done" /\ c \notin Range(queue))
  /\ (queue # << >>) ~> (queue = << >>)

\* C15 witness: a command that went through a retry is handed its result
\* and leaves the queue empty while another command is over.
C15_Witness ==
  /\ delivered.call # 0 /\ delivered.retries >= 1
  /\ queue = << >>
  /\ \E c \in Calls : c # delivered.call /\ pc[c] = "done"

\* C16: whenever a command is rejected, every command waiting behind it is
\* eventually granted the slot and eventually handed its own result; and a
\* command settles only in its own step: on its own connectivity check
\* with the not-connected error, or on its own response or failure.
C16_FailureIsolation ==
  /\ \A a, b \in Calls :
       (delivered.call = a /\ delivered.result.state = "rejected" /\ pc[b] = "queued")
         ~> (pc[b] \in {"done", "unwinding", "inflight"})
  /\ \A a, b \in Calls :
       (delivered.call = a /\ delivered.result.state = "rejected" /\ pc[b] = "queued")
         ~> (pc[b] = "done")
  /\ [][\A b \in Calls :
          (Active(b) /\ ~Settled(b) /\ Settled(b)') =>
            \/ pc[b] = "inflight" /\ micro = << >>
            \/ /\ pc[b] = "queued" /\ micro # << >> /\ Head(micro) = Job("run", b)
               /\ ~connected /\ Result(b)' = NotConnectedError]_vars

\* C16 witness: a command is rejected on a transport failure while another
\* command waits behind it and is granted the slot.
C16_Witness ==
  \E b \in Calls :
    /\ delivered.call \notin {0, b}
    /\ delivered.result = Rejected(Err("transport", ""), NoData)
    /\ pc[b] = "queued" /\ queue = <<b>> /\ HasRunJob(b)

C20_InstancesShareNothing ==
  /\ [][/\ peer' # peer => UNCHANGED <<session, queue, pc, asked>>
        /\ (connected' # connected \/ cookie' # cookie \/ queue' # queue) => peer' = peer]_vars
  /\ [](/\ PeerCall \notin Range(queue)
        /\ \A c \in Calls : c \notin Range(peer.queue)
        /\ peer.pc = "queued" => (peer.queue = <<PeerCall>> /\ HasRunJob(PeerCall))
        /\ \A c \in Calls :
             (pc[c] = "queued" /\ queue # << >> /\ Head(queue) = c) => HasRunJob(c))

\* C20 witness: each instance has a request in flight, the first after a
\* retry and with a command waiting behind it, and one instance is
\* connected while the other has a login under way.
C20_Witness ==
  /\ peer.pc = "inflight"
  /\ \E c \in Calls : pc[c] = "inflight" /\ depth[c] >= 1 /\ Len(queue) >= 2
  /\ peer.connected /\ ~connected /\ loginPending > 0

\* ------------------------------------------------------- claims on retries
\* C21: the request fields of a command stay as they were encoded at its
\* call for as long as the command is pending: every request it posts, the
\* first and each one re-issued after an empty completion message, carries
\* the same action, parameter id or type, serial number and parameter
\* fields, and each grant on a connected session posts exactly one request.
C21_RetryIdentical ==
  [][\A c \in Calls :
       /\ (Active(c) /\ Active(c)') => args'[c] = args[c]
       /\ (pc[c] = "inflight" /\ pc'[c] = "queued") =>
            /\ depth'[c] = depth[c] + 1
            /\ Validate(args[c].type, args[c].po).param = args[c].po.url
       /\ pc'[c] = "inflight" /\ pc[c] # "inflight" =>
            pc[c] = "queued" /\ sent'[c] = sent[c] + 1]_vars

\* C21 witness: a write with an encoded parameter field has its second
\* request in flight after an empty completion message.
C21_Witness ==
  \E c \in Calls :
    /\ pc[c] = "inflight" /\ depth[c] >= 1 /\ sent[c] = depth[c] + 1
    /\ IsWrite(args[c]) /\ args[c].po.url.fields = << <<"param1", 5>> >>

\* C22: nothing in the command stops the retries.  Against a bridge that
\* always answers with an empty completion message every answer re-queues
\* the command one level deeper, every grant on a connected session posts
\* one more request, so that a command answered n times has posted n + 1
\* requests; and no command that posted a request is ever handed a result
\* other than the not-connected rejection of a grant that found the
\* session disconnected.
C22_RetryUnbounded ==
  /\ [][\A c \in Calls :
          /\ (pc[c] = "inflight" /\ pc'[c] # "inflight") =>
               /\ pc'[c] = "queued" /\ depth'[c] = depth[c] + 1
               /\ c \in Range(queue') /\ sent'[c] = sent[c]
               /\ delivered'.call # c
          /\ (pc[c] = "queued" /\ pc'[c] # "queued" /\ connected) =>
               /\ pc'[c] = "inflight" /\ depth'[c] = depth[c]
               /\ sent'[c] = sent[c] + 1]_vars
  /\ [](\A c \in Calls : pc[c] = "inflight" => sent[c] = depth[c] + 1)
  /\ [](delivered.call # 0 => delivered.result = NotConnectedError)

\* C22 witness: a command answered with an empty completion message as
\* often as the model lets it has its next request in flight.
C22_Witness ==
  \E c \in Calls :
    pc[c] = "inflight" /\ depth[c] = MaxRetry /\ sent[c] = MaxRetry + 1

\* ------------------------------------------------------- claims on grants
SeenConnected(a) == a.po.url.serialNum = "SN1"

\* C23: the call of a command does not look at the session: a valid
\* command is queued whether or not the session is connected.  What
\* happens at the grant follows from the session at the grant alone: on a
\* connected session the request is posted, also for a command called
\* while disconnected; on a disconnected session the command is rejected
\* with the not-connected error and nothing is posted, also for a command
\* called while connected.
C23_CheckedAtGrant ==
  [][\A c \in Calls :
       /\ Called(c) => pc'[c] = "queued" /\ c \in Range(queue') /\ delivered'.call # c
       /\ (pc[c] = "queued" /\ pc'[c] # "queued") =>
            IF connected
            THEN pc'[c] = "inflight" /\ sent'[c] = sent[c] + 1
            ELSE /\ pc'[c] \in {"done", "unwinding"}
                 /\ Result(c)' = NotConnectedError
                 /\ sent'[c] = sent[c]
                 /\ InFlight' = InFlight]_vars

\* C23 witness: a command called while the session was disconnected has
\* its first request in flight and a command called while it was connected
\* waits behind it on a session that is disconnected again.
C23_Witness ==
  \E c, b \in Calls :
    /\ pc[c] = "inflight" /\ depth[c] = 0 /\ ~SeenConnected(args[c])
    /\ pc[b] = "queued" /\ SeenConnected(args[b]) /\ ~connected

\* ------------------------------------------------ claims on error messages
\* The first declared parameter that the supplied values lack, all
\* parameters before it being supplied and in range (0 when there is none).
FirstMissing(a) ==
  LET p == Declared(a)
      gap == {i \in 1..Len(p) :
                /\ ~Supplied(a, p[i].key)
                /\ \A j \in 1..(i - 1) : Supplied(a, p[j].key) /\ ~OutOfRange(a, p[j].key)}
  IN IF gap = {} THEN 0 ELSE CHOOSE i \in gap : TRUE

\* C24: the error a call is rejected with for a value that is out of range
\* names the first such parameter and carries that parameter's declared
\* semantic type, the function and the device type of the call; the error
\* for a missing value names the first missing parameter and carries the
\* function and the device type.
C24_ErrorIdentifies ==
  LET a == delivered.args
      e == delivered.result.err
  IN /\ (delivered.call # 0 /\ e.kind = "incorrect") =>
          /\ FirstInvalid(a) # 0
          /\ e.name = Declared(a)[FirstInvalid(a)].name
          /\ e.on = <<Declared(a)[FirstInvalid(a)].type, a.po.func, a.type>>
     /\ (delivered.call # 0 /\ e.kind = "missing") =>
          /\ FirstMissing(a) # 0
          /\ e.name = Declared(a)[FirstMissing(a)].name
          /\ e.on = <<a.po.func, a.type>>

\* C24 witness: a write of period whose second value is out of range is
\* rejected with the error naming End hour, its type, period and tlx.
C24_Witness ==
  /\ delivered.call # 0
  /\ delivered.result.err = ErrOn("incorrect", "End hour", <<"INUM_0_23", "period", "tlx">>)

\* ----------------------------------------------------- claims on the parser
\* C25: a command whose result parser throws on the payload that ends it
\* is rejected with the parser's error, at whatever level of retry the
\* payload arrived, and its queue entry is gone: the step that takes the
\* response settles the command and releases the slot.
C25_ParserFailureRejects ==
  /\ [](\A c \in Calls :
          (/\ Settled(c) /\ Result(c).value.data /\ Result(c).value.success # Undefined
           /\ parseThrows(Result(c).value)
           /\ IsRead(ArgsOf(c)) /\ DeclaresParser(ArgsOf(c))) =>
            /\ Result(c).state = "rejected"
            /\ Result(c).err.kind = "parser"
            /\ c \notin Range(queue))
  /\ [][\A c \in Calls :
          Result(c)'.err.kind = "parser" =>
            \/ pc[c] = "inflight" /\ Settled(c)' /\ c \notin Range(queue')
            \/ Result(c).err.kind = "parser" /\ pc[c] = "unwinding"]_vars

\* C25 witness: a read of a function with a parser is answered, after a
\* retry, with a payload the parser throws on, and is rejected with the
\* parser's error.
C25_Witness ==
  /\ delivered.call # 0 /\ delivered.retries >= 1
  /\ IsRead(delivered.args)
  /\ delivered.result = Rejected(Err("parser", ""), Payload("true", "malformed"))

\* --------------------------------------------- claims on the call's frame
\* C27: the step in which a command is called, from the start of
\* comInverter to its addTask or its validation rejection, posts no
\* request and leaves this.connected, this.cookie and the pending logins
\* as they are; it ends with the command queued, or rejected with a
\* validation error and nothing posted.
C27_ValidationNoIO ==
  [][\A c \in Calls :
       Called(c) =>
         /\ UNCHANGED <<connected, cookie, loginPending>>
         /\ sent' = sent
         /\ InFlight' = InFlight
         /\ \/ pc'[c] = "queued" /\ c \in Range(queue') /\ delivered'.call # c
            \/ /\ pc'[c] = "done" /\ delivered'.call = c /\ delivered'.sent = 0
               /\ delivered'.result.err.kind \in
                    {"missing", "incorrect", "unknownAction", "unknownFunction"}]_vars

\* C27 witness: a valid write was just queued behind a command whose
\* request is in flight, on a connected session.
C27_Witness ==
  \E c, d \in Calls :
    /\ pc[d] = "inflight" /\ connected
    /\ pc[c] = "queued" /\ sent[c] = 0 /\ depth[c] = 0 /\ IsWrite(args[c])
    /\ queue = <<d, c>> /\ ~HasRunJob(c)

\* ------------------------------------------------- claims on completion
\* C29: a command signals completion only for a grant of its own: every
\* step of a command that takes the head entry off the queue takes off the
\* entry of that command.
C29_CompletionOncePerGrant ==
  [][\A c \in Calls :
       (/\ pc'[c] # pc[c] \/ unwind'[c] # unwind[c]
        /\ queue # << >>
        /\ queue' = << >> \/ Head(queue') # Head(queue) \/ Len(queue') < Len(queue))
       => Head(queue) = c]_vars

\* ---------------------------------------------------------- claims on logout
\* C28: the step in which logout resolves leaves the session disconnected
\* and the cookie empty.  From then until a login succeeds the session
\* stays disconnected, nothing but the success of a login ends that, and
\* every command that is granted the slot in between is rejected with the
\* not-connected error and posts no request.
C28_LogoutResets ==
  /\ [][(delivered'.args.type = "logout" /\ delivered'.result.state = "resolved") =>
          ~connected' /\ cookie' = "" /\ loggedOut']_vars
  /\ [](loggedOut => ~connected)
  /\ [][(loggedOut /\ ~loggedOut') =>
          connected' /\ loginPending' = loginPending - 1]_vars
  /\ [][\A c \in Calls :
          (loggedOut /\ pc[c] = "queued" /\ pc'[c] # "queued") =>
            /\ pc'[c] \in {"done", "unwinding"}
            /\ Result(c)' = NotConnectedError
            /\ sent'[c] = sent[c]]_vars

\* C28 witness: a command that posted a request on the connected session
\* and was re-queued by an empty completion message is granted the slot
\* after logout resolved, and is rejected with the not-connected error.
C28_Witness ==
  /\ loggedOut /\ loginPending = 0
  /\ \E c \in Calls :
       pc[c] = "unwinding" /\ sent[c] >= 1 /\ outcome[c] = NotConnectedError

\* ----------------------------------------------------------- claims on login
\* C30: isConnected() is false as long as a login, demoLogin or
\* sharePlantLogin request is in flight.
C30_DisconnectedWhileLoggingIn ==
  (loginPending > 0 \/ guestPending > 0) => ~isConnected

\* ------------------------------------------------------ claims on the registry
\* C26: every descriptor of the registry is at all times what it was at
\* startup, whatever commands are called and whatever the application
\* assigns to the map getInverterCommunication handed it.
C26_RegistryNeverMutated ==
  \A type \in DOMAIN GROWATTTYPE :
    \A func \in DOMAIN GROWATTTYPE[type].comInverter :
      Descriptor(type, func) = GROWATTTYPE[type].comInverter[func]

\* ----------------------------------------------- claims on the retry's grant
\* C31: the re-issue after an empty completion message goes through the
\* connectivity test of the grant like a first request: a retry granted
\* the slot on a disconnected session settles with the not-connected
\* error and posts nothing, a retry granted on a connected session posts
\* one request; and a command handed the not-connected error after n
\* empty completion messages has posted n requests, not n + 1.
C31_RecheckedBeforeRetry ==
  /\ [][\A c \in Calls :
          (depth[c] > 0 /\ pc[c] = "queued" /\ pc'[c] # "queued") =>
            IF connected
            THEN pc'[c] = "inflight" /\ sent'[c] = sent[c] + 1
            ELSE /\ pc'[c] = "unwinding"
                 /\ outcome'[c] = NotConnectedError
                 /\ sent'[c] = sent[c]
                 /\ InFlight' = InFlight]_vars
  /\ [](delivered.result.err.kind = "notConnected" => delivered.sent = delivered.retries)

\* C31 witness: command 1 was answered with an empty completion message,
\* command 2 was then granted the slot on the connected session and
\* posted, a logout went through, and command 1, granted the slot again,
\* settled with the not-connected error with its one request posted.
C31_Witness ==
  /\ pc[1] = "unwinding" /\ depth[1] = 1 /\ sent[1] = 1
  /\ outcome[1] = NotConnectedError
  /\ pc[2] = "queued" /\ depth[2] = 1 /\ sent[2] = 1
  /\ ~connected /\ loggedOut

\* ------------------------------------- claims on validation and connectivity
\* C32: the not-connected error is handed only to commands that the
\* validation has nothing against: a command rejected as not connected
\* names a device type and a function of the registry and, when it is a
\* write, supplies every declared parameter with a value in range.
C32_ValidationBeforeConnectivity ==
  (delivered.call # 0 /\ delivered.result.err.kind = "notConnected") =>
    /\ delivered.args.type \in DOMAIN GROWATTTYPE
    /\ delivered.args.po.func \in DOMAIN GROWATTTYPE[delivered.args.type].comInverter
    /\ IsWrite(delivered.args) =>
         \A i \in 1..Len(Declared(delivered.args)) :
           /\ Supplied(delivered.args, Declared(delivered.args)[i].key)
           /\ ~OutOfRange(delivered.args, Declared(delivered.args)[i].key)

\* ------------------------------------------------- claims on a failed logout
\* C33: the step that rejects a logout leaves this.connected and
\* this.cookie as they were, as does the call of logout; and every logout
\* request that ends hands its caller a result, the rejection carrying the
\* transport's error.
C33_FailedLogoutKeepsSession ==
  [][/\ (delivered'.args.type = "logout" /\ delivered'.result.state = "rejected") =>
          /\ UNCHANGED <<connected, cookie, loginPending>>
          /\ logoutPending' = logoutPending - 1
          /\ delivered'.result.err.kind = "transport"
     /\ logoutPending' > logoutPending => UNCHANGED <<connected, cookie>>
     /\ logoutPending' < logoutPending =>
          /\ delivered'.args.type = "logout"
          /\ delivered'.result.state \in {"resolved", "rejected"}]_vars

\* C33 witness: a logout was rejected on a session that is logged in, and
\* the session is still connected and holds its token.
C33_Witness ==
  /\ delivered = LogoutDelivery(Rejected(Err("transport", ""), NoData))
  /\ connected /\ cookie = "JSESSIONID"

\* ------------------------------------------------- claims on the device pages
\* C34: when the first response reports P > 1 pages and no request fails,
\* getAllPlantData has requested the pages 1, 2, ..., P, each once and in
\* this order, when it is through.
C34_EveryPageOnce ==
  (pager.stage = "done" /\ pager.pages > 1) =>
    pager.requested = [i \in 1..pager.pages |-> i]

====
